---- MODULE Spec2Model ----
(***************************************************************************)
(* Model of the eu-matcher scoring engine (src/app.py): the Country        *)
(* accessors, skill_score, compute_match and the /recommend handler, plus  *)
(* the unit test of src/test_scoring.py.                                   *)
(*                                                                         *)
(* Numbers are fixed point.  Weights (form weights, sector strengths,      *)
(* language weights) are counted in tenths, breakdown values and the       *)
(* country attributes in thousandths, the final score in hundredths of a   *)
(* point (0..10000 is 0.00..100.00).  round(x, n) is computed on the exact *)
(* quotient, a tie going to the even neighbour.  On the data of this       *)
(* model the float code yields the same breakdown values everywhere and    *)
(* the same score except where the exact score ends in half a hundredth:   *)
(* there the binary representation of the float picks either neighbour.    *)
(***************************************************************************)
EXTENDS Integers, Sequences, FiniteSets, TLC

VARIABLES catalog, form, response, weights, submits

vars == <<catalog, form, response, weights, submits>>

----------------------------------------------------------------------------
(* Bounds of the model *)

MaxCatalog == 2
MaxFields == 2
MaxSubmits == 2

----------------------------------------------------------------------------
(* Arithmetic helpers *)

Abs(n) == IF n < 0 THEN -n ELSE n

\* round(num/den, k) expressed in units of 10^-k: round half to even, den > 0
round(num, den) ==
    LET q == num \div den
        r == num % den
    IN  IF 2 * r < den THEN q
        ELSE IF 2 * r > den THEN q + 1
        ELSE IF q % 2 = 0 THEN q ELSE q + 1

RECURSIVE sum(_)
sum(s) == IF s = <<>> THEN 0 ELSE Head(s) + sum(Tail(s))

RECURSIVE SeqMax(_)
SeqMax(s) == IF Len(s) = 1 THEN s[1]
             ELSE LET m == SeqMax(Tail(s)) IN IF s[1] >= m THEN s[1] ELSE m

max(a, b) == IF a >= b THEN a ELSE b
min(a, b) == IF a <= b THEN a ELSE b

RECURSIVE Flatten(_)
Flatten(ss) == IF ss = <<>> THEN <<>> ELSE Head(ss) \o Flatten(Tail(ss))

----------------------------------------------------------------------------
(* String conversions, tabulated on the strings of the model *)

lower(s) ==
    CASE s = "English" -> "english"
      [] s = "German"  -> "german"
      [] OTHER -> s

strip(s) ==
    CASE s = " tech" -> "tech"
      [] s = " "     -> ""
      [] OTHER -> s

int(s) ==
    CASE s = "-1" -> -1
      [] s = "2"  -> 2
      [] s = "3"  -> 3
      [] s = "4"  -> 4
      [] s = "5"  -> 5

----------------------------------------------------------------------------
(* Country rows.  A Text column is [present, val]: NULL is present = FALSE. *)

Null == [present |-> FALSE, val |-> <<>>]
Text(v) == [present |-> TRUE, val |-> v]

\* elements of the languages JSON list: a bare name or a {name, weight} dict
Bare(n) == [kind |-> "str", name |-> n, has_weight |-> FALSE, weight |-> 0]
Dict(n, w) == [kind |-> "dict", name |-> n, has_weight |-> TRUE, weight |-> w]
DictNoWeight(n) == [kind |-> "dict", name |-> n, has_weight |-> FALSE, weight |-> 0]

Month(lo, hi) == [min |-> lo, max |-> hi]

\* the row built by the unit test: no monthly_avg_temps
TestCountry ==
    [name |-> "Testland",
     languages |-> Text(<<Bare("english"), Bare("german")>>),
     sector_scores |-> Text([s \in {"tech"} |-> 8]),
     tolerance |-> 800, cost_index |-> 400, climate |-> 100,
     monthly_avg_temps |-> Null,
     description |-> ""]

\* catalog rows; the months of the model carry both a min and a max
Testland ==
    [TestCountry EXCEPT !.languages = Text(<<Bare("English"), Bare("german")>>),
                        !.monthly_avg_temps = Text(<<Month(5, 35)>>)]

Twinland ==
    [name |-> "Twinland",
     languages |-> Text(<<Dict("English", 10), Dict("german", 5)>>),
     sector_scores |-> Text([s \in {"tech", "general"} |->
                                IF s = "tech" THEN 8 ELSE 5]),
     tolerance |-> 800, cost_index |-> 400, climate |-> 100,
     monthly_avg_temps |-> Text(<<Month(-20, -5), Month(12, 28)>>),
     description |-> "twin"]

Coldland ==
    [name |-> "Coldland",
     languages |-> Text(<<DictNoWeight("German")>>),
     sector_scores |-> Null,
     tolerance |-> 600, cost_index |-> 200, climate |-> -500,
     monthly_avg_temps |-> Text(<<Month(-20, -5)>>),
     description |-> "cold"]

Bareland ==
    [name |-> "Bareland",
     languages |-> Null,
     sector_scores |-> Null,
     tolerance |-> 900, cost_index |-> 100, climate |-> 0,
     monthly_avg_temps |-> Null,
     description |-> "bare"]

CountryPool == {Testland, Twinland, Coldland, Bareland}

\* a column read without the default: None reaches json.loads
or_nothing(col) == col

\* `column or "[]"` (or "{}"): the text handed to json.loads
or_default(col) == IF col.present THEN col ELSE Text(<<>>)

\* json.loads: the parsed value; it raises TypeError when handed None
json_loads(text) == text.val
loads_raises(text) == ~ text.present

\* Country.langs
langs(country) ==
    LET langs_raw == json_loads(or_default(country.languages))
    IN  IF langs_raw # <<>> /\ langs_raw[1].kind = "dict"
        THEN langs_raw
        ELSE [i \in DOMAIN langs_raw |-> Dict(lower(langs_raw[i].name), 10)]

\* Country.sectors
sectors(country) == json_loads(or_default(country.sector_scores))

\* Country.temps
temps(country) == json_loads(or_default(country.monthly_avg_temps))

\* whether the accessor raises for the row
langs_raises(country) == loads_raises(or_default(country.languages))
sectors_raises(country) == loads_raises(or_default(country.sector_scores))
temps_raises(country) == loads_raises(or_default(country.monthly_avg_temps))

----------------------------------------------------------------------------
(* Skill matching *)

\* fuzz.token_set_ratio on the skill and sector names of the model (0..100)
token_set_ratio(s, t) ==
    CASE s = t -> 100
      [] {s, t} = {"python", "tech"}    -> 40
      [] {s, t} = {"python", "general"} -> 15
      [] {s, t} = {"tech", "general"}   -> 18

\* skill_score: best similarity over country_skills, in hundredths
skill_score(user_skill, country_skills) ==
    LET sims == {token_set_ratio(user_skill, country_skills[i]) :
                    i \in DOMAIN country_skills}
        better == {x \in sims : x > 0}
    IN  IF better = {} THEN 0
        ELSE CHOOSE x \in better : \A y \in better : x >= y

----------------------------------------------------------------------------
(* compute_match *)

\* lines 96-103: the best sector score of each user skill, in thousandths
skill_scores(user_skills, country) ==
    LET secs == sectors(country)
        best(skill) ==
            LET cands == {0} \cup {skill_score(skill, <<n>>) * secs[n] :
                                      n \in DOMAIN secs}
            IN  CHOOSE x \in cands : \A y \in cands : x >= y
    IN  [i \in DOMAIN user_skills |-> best(user_skills[i])]

\* the skills factor with a fallback to the "general" sector for no skills
skill_score_final_general(user_skills, country) ==
    LET scores == skill_scores(user_skills, country)
        secs == sectors(country)
    IN  IF scores # <<>> THEN round(sum(scores), Len(scores))
        ELSE IF "general" \in DOMAIN secs THEN 100 * secs["general"] ELSE 0

\* lines 96-105: the skills factor, the mean of the per-skill scores
skill_score_final(user_skills, country) ==
    LET scores == skill_scores(user_skills, country)
    IN  IF scores # <<>> THEN round(sum(scores), Len(scores)) ELSE 0

\* the matching pairs when the country side is compared as stored
lang_scores_as_stored(user_languages, country) ==
    LET country_langs == langs(country)
        hit(ul, c_lang) ==
            IF ul[1] = c_lang.name
            THEN <<ul[2] * (IF c_lang.has_weight THEN c_lang.weight ELSE 10)>>
            ELSE <<>>
        per_user(ul) ==
            Flatten([j \in DOMAIN country_langs |-> hit(ul, country_langs[j])])
    IN  Flatten([i \in DOMAIN user_languages |-> per_user(user_languages[i])])

\* lines 108-113: prof * weight (tenths) of every matching pair, user order
lang_scores(user_languages, country) ==
    LET country_langs == langs(country)
        hit(ul, c_lang) ==
            IF ul[1] = lower(c_lang.name)
            THEN <<ul[2] * (IF c_lang.has_weight THEN c_lang.weight ELSE 10)>>
            ELSE <<>>
        per_user(ul) ==
            Flatten([j \in DOMAIN country_langs |-> hit(ul, country_langs[j])])
    IN  Flatten([i \in DOMAIN user_languages |-> per_user(user_languages[i])])

\* the lang factor as the mean of the matches instead of their maximum
lang_score_final_mean(scores) ==
    IF scores # <<>> THEN round(sum(scores) * 100, 3 * Len(scores)) ELSE 0

\* line 114-115: the lang factor, max(lang_scores) / 3.0 rounded to 3 places
lang_score_final(scores) ==
    IF scores # <<>> THEN round(SeqMax(scores) * 100, 3) ELSE 0

WeightKeys == {"skills", "lang", "tolerance", "cost", "climate"}

compute_match(user_skills, user_languages, country, w) ==
    LET breakdown ==
            [skills    |-> skill_score_final(user_skills, country),
             lang      |-> lang_score_final(
                               lang_scores(user_languages, country)),
             tolerance |-> round(country.tolerance, 1),
             cost      |-> round(1000 - country.cost_index, 1),
             climate   |-> round(country.climate + 1000, 2)]
        \* weighted_sum, in units of 1 / (1000 * w.den)
        weighted == w.num["skills"] * breakdown.skills
                  + w.num["lang"] * breakdown.lang
                  + w.num["tolerance"] * breakdown.tolerance
                  + w.num["cost"] * breakdown.cost
                  + w.num["climate"] * breakdown.climate
        capped == min(weighted, w.den * 1000)
    IN  [score |-> round(capped * 10, w.den), breakdown |-> breakdown]

NoBreakdown == [skills |-> 0, lang |-> 0, tolerance |-> 0, cost |-> 0,
                climate |-> 0]

\* lines 96 and 108: compute_match raises what its accessors raise
compute_match_raises(country) ==
    sectors_raises(country) \/ langs_raises(country)

\* a call of compute_match with positional arguments args (def line 92)
call_compute_match(args) ==
    IF Len(args) # 4
    THEN [raised |-> "TypeError", score |-> 0, breakdown |-> NoBreakdown]
    ELSE IF compute_match_raises(args[3])
    THEN [raised |-> "TypeError", score |-> 0, breakdown |-> NoBreakdown]
    ELSE LET r == compute_match(args[1], args[2], args[3], args[4])
         IN  [raised |-> "", score |-> r.score, breakdown |-> r.breakdown]

----------------------------------------------------------------------------
(* The /recommend handler *)

\* the form of a request: the comma-separated skills, the numbered
\* language_i / proficiency_i fields, the weight_* and *_temp fields present
EmptyForm == [skills |-> <<>>, languages |-> <<>>, weights |-> <<>>,
              temps |-> <<>>]

\* the number of fields a form carries
field_count(f) ==
    Len(f.skills) + Len(f.languages) + Cardinality(DOMAIN f.weights)
        + Cardinality(DOMAIN f.temps)

\* request.form.get(key, default) on a group of fields
get(fields, key, default) ==
    IF key \in DOMAIN fields THEN fields[key] ELSE default

\* line 149
parse_skills(skills_raw) ==
    LET stripped == [i \in DOMAIN skills_raw |-> strip(skills_raw[i])]
    IN  SelectSeq(stripped, LAMBDA t : t # "")

\* lines 152-162
parse_languages(entries) ==
    LET keep(e) == lower(strip(e.lang)) # "" /\ e.prof # ""
        kept == SelectSeq(entries, keep)
    IN  [i \in DOMAIN kept |-> <<lower(strip(kept[i].lang)), int(kept[i].prof)>>]

DefaultWeights == [skills |-> 3, lang |-> 3, tolerance |-> 2, cost |-> 1,
                   climate |-> 1]

\* lines 169-175
parse_weights(fields) ==
    [k \in WeightKeys |-> get(fields, k, DefaultWeights[k])]

total_weight(raw) ==
    raw["skills"] + raw["lang"] + raw["tolerance"] + raw["cost"]
        + raw["climate"]

\* the weights left as parsed, whatever their sum
normalize_omitted(raw) == [num |-> raw, den |-> 10]

\* lines 177-181: the effective weight of key k is num[k] / den
normalize(raw) ==
    IF total_weight(raw) > 10
    THEN [num |-> raw, den |-> total_weight(raw)]
    ELSE [num |-> raw, den |-> 10]

DefaultMinTemp == -10
DefaultMaxTemp == 40

\* the filter with the upper bound left out
fits_temp_min_only(monthly_temps, min_temp, max_temp) ==
    \E i \in DOMAIN monthly_temps : monthly_temps[i].min >= min_temp

\* lines 195-199
fits_temp(monthly_temps, min_temp, max_temp) ==
    \E i \in DOMAIN monthly_temps :
        monthly_temps[i].min >= min_temp /\ monthly_temps[i].max <= max_temp

\* a result list that outlives the request
new_results_kept(previous) == previous

\* line 187: the result list of a request starts empty
new_results(previous) == <<>>

\* lines 190-194: the months of a row, none when temps() raises
monthly_temps(country) ==
    IF temps_raises(country) THEN <<>> ELSE temps(country)

\* lines 188-203: whether scoring a row that passes the filter raises
recommend_raises(countries, min_temp, max_temp) ==
    \E k \in DOMAIN countries :
        /\ fits_temp(monthly_temps(countries[k]), min_temp, max_temp)
        /\ compute_match_raises(countries[k])

\* lines 188-209: the scored entries of the countries that pass the filter
RECURSIVE score_all(_, _, _, _, _, _)
score_all(countries, user_skills, user_languages, w, min_temp, max_temp) ==
    IF countries = <<>> THEN <<>>
    ELSE LET country == Head(countries)
             rest == score_all(Tail(countries), user_skills, user_languages,
                               w, min_temp, max_temp)
             m == compute_match(user_skills, user_languages, country, w)
         IN  IF ~ fits_temp(monthly_temps(country), min_temp, max_temp)
             THEN rest
             ELSE <<[name |-> country.name, score |-> m.score,
                     breakdown |-> m.breakdown,
                     description |-> country.description]>> \o rest

\* an insertion that puts an entry before the entries of equal score
RECURSIVE insert_desc_unstable(_, _)
insert_desc_unstable(sorted, x) ==
    IF sorted = <<>> THEN <<x>>
    ELSE IF Head(sorted).score > x.score
         THEN <<Head(sorted)>> \o insert_desc_unstable(Tail(sorted), x)
         ELSE <<x>> \o sorted

\* line 210: list.sort(key=score, reverse=True), a stable sort
RECURSIVE insert_desc(_, _)
insert_desc(sorted, x) ==
    IF sorted = <<>> THEN <<x>>
    ELSE IF Head(sorted).score >= x.score
         THEN <<Head(sorted)>> \o insert_desc(Tail(sorted), x)
         ELSE <<x>> \o sorted

RECURSIVE sort_by_score(_)
sort_by_score(results) ==
    IF results = <<>> THEN <<>>
    ELSE insert_desc(sort_by_score(SubSeq(results, 1, Len(results) - 1)),
                     results[Len(results)])

----------------------------------------------------------------------------
(* State *)

NoWeights == [num |-> [k \in WeightKeys |-> 0], den |-> 10]

Page(kind, results, user_skills, user_langs, call) ==
    [kind |-> kind, results |-> results, user_skills |-> user_skills,
     user_langs |-> user_langs, call |-> call]

NoCall == [raised |-> "", score |-> 0, breakdown |-> NoBreakdown]

RECURSIVE SeqsUpTo(_, _)
SeqsUpTo(S, n) ==
    IF n = 0 THEN {<<>>}
    ELSE LET shorter == SeqsUpTo(S, n - 1)
         IN  shorter \cup {Append(s, x) : s \in shorter, x \in S}

\* catalogs: rows with unique names, in the order Country.query.all() yields
Catalogs ==
    {c \in SeqsUpTo(CountryPool, MaxCatalog) :
        \A i, j \in DOMAIN c : i # j => c[i].name # c[j].name}

RawSkills == {"python", " tech", " "}
FormLangs == {"english", "German"}
FormProfs == {"", "2", "3", "5"}
FormWeights == {-5, 0, 10}
FormMinTemps == {-30, 10}
FormMaxTemps == {30}

Init ==
    /\ catalog \in Catalogs
    /\ form = EmptyForm
    /\ response = Page("none", <<>>, <<>>, <<>>, NoCall)
    /\ weights = NoWeights
    /\ submits = 0

\* GET /: the blank form
index ==
    /\ response' = Page("index", <<>>, <<>>, <<>>, NoCall)
    /\ form' = EmptyForm
    /\ weights' = NoWeights
    /\ submits' = 0
    /\ UNCHANGED catalog

\* the user fills in the form shown by index
fill_skill ==
    /\ response.kind = "index"
    /\ field_count(form) < MaxFields
    /\ \E t \in RawSkills :
          form' = [form EXCEPT !.skills = Append(@, t)]
    /\ UNCHANGED <<catalog, response, weights, submits>>

fill_language ==
    /\ response.kind = "index"
    /\ field_count(form) < MaxFields
    /\ \E l \in FormLangs, p \in FormProfs :
          form' = [form EXCEPT !.languages = Append(@, [lang |-> l, prof |-> p])]
    /\ UNCHANGED <<catalog, response, weights, submits>>

fill_weight ==
    /\ response.kind = "index"
    /\ field_count(form) < MaxFields
    /\ \E k \in WeightKeys \ DOMAIN form.weights, v \in FormWeights :
          form' = [form EXCEPT !.weights = @ @@ (k :> v)]
    /\ UNCHANGED <<catalog, response, weights, submits>>

fill_temp ==
    /\ response.kind = "index"
    /\ field_count(form) < MaxFields
    /\ \/ /\ "min_temp" \notin DOMAIN form.temps
          /\ \E v \in FormMinTemps :
                form' = [form EXCEPT !.temps = @ @@ ("min_temp" :> v)]
       \/ /\ "max_temp" \notin DOMAIN form.temps
          /\ \E v \in FormMaxTemps :
                form' = [form EXCEPT !.temps = @ @@ ("max_temp" :> v)]
    /\ UNCHANGED <<catalog, response, weights, submits>>

\* POST /recommend with the current form
recommend ==
    /\ response.kind \in {"index", "results"}
    /\ submits < MaxSubmits
    /\ LET user_skills == parse_skills(form.skills)
           user_languages == parse_languages(form.languages)
           w == normalize(parse_weights(form.weights))
           min_temp == get(form.temps, "min_temp", DefaultMinTemp)
           max_temp == get(form.temps, "max_temp", DefaultMaxTemp)
           results == new_results(response.results) \o
                          score_all(catalog, user_skills, user_languages, w,
                                    min_temp, max_temp)
       IN  /\ weights' = w
           /\ response' =
                 IF recommend_raises(catalog, min_temp, max_temp)
                 THEN Page("error", <<>>, <<>>, <<>>, NoCall)
                 ELSE Page("results", sort_by_score(results), user_skills,
                           user_languages, NoCall)
    /\ submits' = submits + 1
    /\ UNCHANGED <<catalog, form>>

\* src/test_scoring.py, run in a fresh interpreter
test_language_matching ==
    /\ response.kind = "none"
    /\ LET country == TestCountry
           user_skills == <<"python">>
           user_languages == <<<<"english", 3>>>>
       IN  response' = Page("test", <<>>, user_skills, user_languages,
                   call_compute_match(<<user_skills, user_languages, country>>))
    /\ UNCHANGED <<catalog, form, weights, submits>>

Next ==
    \/ index
    \/ fill_skill
    \/ fill_language
    \/ fill_weight
    \/ fill_temp
    \/ recommend
    \/ test_language_matching

Spec == Init /\ [][Next]_vars

----------------------------------------------------------------------------
(* Vocabulary of the properties *)

ResultsPage == response.kind = "results"

\* the raw weight of factor k in the submitted form
RawWeight(k) ==
    IF k \in DOMAIN form.weights THEN form.weights[k] ELSE DefaultWeights[k]

RawTotal ==
    RawWeight("skills") + RawWeight("lang") + RawWeight("tolerance")
        + RawWeight("cost") + RawWeight("climate")

\* the temperature bounds of the submitted form
MinBound == IF "min_temp" \in DOMAIN form.temps
            THEN form.temps["min_temp"] ELSE DefaultMinTemp
MaxBound == IF "max_temp" \in DOMAIN form.temps
            THEN form.temps["max_temp"] ELSE DefaultMaxTemp

Listed(name) == \E i \in DOMAIN response.results : response.results[i].name = name

CatalogIndex(name) == CHOOSE k \in DOMAIN catalog : catalog[k].name = name

CountryNamed(name) == catalog[CatalogIndex(name)]

HasMonthlyData(c) ==
    c.monthly_avg_temps.present /\ c.monthly_avg_temps.val # <<>>

SomeMonthFits(c) ==
    \E i \in DOMAIN c.monthly_avg_temps.val :
        /\ c.monthly_avg_temps.val[i].min >= MinBound
        /\ c.monthly_avg_temps.val[i].max <= MaxBound

\* prof * weight (tenths) of every pair of a user language and a language
\* entry of c with the same name, letter case apart
Matches(user_langs, c) ==
    LET raw == IF c.languages.present THEN c.languages.val ELSE <<>>
    IN  {user_langs[i][2] *
            (IF raw[j].kind = "dict" /\ raw[j].has_weight
             THEN raw[j].weight ELSE 10) :
         <<i, j>> \in {p \in (DOMAIN user_langs) \X (DOMAIN raw) :
                          user_langs[p[1]][1] = lower(raw[p[2]].name)}}

SetMax(S) == CHOOSE x \in S : \A y \in S : x >= y

----------------------------------------------------------------------------
(* Properties *)

\* C1: every ranked entry has a final score in [0, 100] and each of its
\* five breakdown values in [0, 1], whatever the user profile.
C1_ScoreAndBreakdownInRange ==
    ResultsPage =>
        \A i \in DOMAIN response.results :
            LET r == response.results[i]
            IN  /\ r.score >= 0 /\ r.score <= 10000
                /\ \A k \in WeightKeys :
                      r.breakdown[k] >= 0 /\ r.breakdown[k] <= 1000

\* C2: the ranked list is sorted non-increasing by score, and entries of
\* equal score keep the order their countries have in the catalog.
C2_SortedAndStable ==
    ResultsPage =>
        \A i, j \in DOMAIN response.results :
            i < j =>
                /\ response.results[i].score >= response.results[j].score
                /\ response.results[i].score = response.results[j].score
                     => CatalogIndex(response.results[i].name)
                            < CatalogIndex(response.results[j].name)

C2_Witness ==
    /\ ResultsPage
    /\ Len(response.results) >= 2
    /\ response.results[1].score = response.results[2].score
    /\ response.results[1].name = "Twinland"

\* C3: a country that has monthly temperature data is in the ranked output
\* if and only if one of its months has min >= the minimum bound and
\* max <= the maximum bound.
C3_ListedIffSomeMonthFits ==
    ResultsPage =>
        \A k \in DOMAIN catalog :
            HasMonthlyData(catalog[k]) =>
                (Listed(catalog[k].name) <=> SomeMonthFits(catalog[k]))

C3_Witness ==
    /\ ResultsPage
    /\ \E k \in DOMAIN catalog :
          HasMonthlyData(catalog[k]) /\ Listed(catalog[k].name)
    /\ \E k \in DOMAIN catalog :
          HasMonthlyData(catalog[k]) /\ ~ Listed(catalog[k].name)

\* C4: a country without monthly temperature data is not excluded by the
\* temperature filter: it is in the ranked output whatever the bounds are.
C4_NoDataNotExcluded ==
    ResultsPage =>
        \A k \in DOMAIN catalog :
            ~ HasMonthlyData(catalog[k]) => Listed(catalog[k].name)

\* C5: non-negative weights whose raw sum exceeds 1 are each divided by the
\* sum, so that the effective weights sum to 1; weights whose raw sum is at
\* most 1 are used unchanged.
C5_WeightsNormalized ==
    (ResultsPage /\ \A k \in WeightKeys : RawWeight(k) >= 0) =>
        IF RawTotal > 10
        THEN /\ \A k \in WeightKeys :
                   weights.num[k] * RawTotal = RawWeight(k) * weights.den
             /\ weights.num["skills"] + weights.num["lang"]
                  + weights.num["tolerance"] + weights.num["cost"]
                  + weights.num["climate"] = weights.den
        ELSE \A k \in WeightKeys :
                 weights.num[k] * 10 = RawWeight(k) * weights.den

C5_Witness ==
    /\ ResultsPage
    /\ \A k \in WeightKeys : RawWeight(k) >= 0
    /\ RawTotal > 10
    /\ response.results # <<>>

\* C6: the call of the unit test, compute_match(user_skills,
\* user_languages, country), returns lang = 1.0 and a score above 0.
C6_TestCallReturnsLangOne ==
    response.kind = "test" =>
        /\ response.call.raised = ""
        /\ response.call.breakdown.lang = 1000
        /\ response.call.score > 0

C8_EmptyInputZeroFactor ==
    ResultsPage =>
        /\ \A i \in DOMAIN response.results :
              LET r == response.results[i]
              IN  /\ parse_skills(form.skills) = <<>> => r.breakdown.skills = 0
                  /\ parse_languages(form.languages) = <<>>
                        => r.breakdown.lang = 0
                  /\ DOMAIN r.breakdown = WeightKeys
                  /\ r.score \in Int
        /\ \A k \in DOMAIN catalog :
              (HasMonthlyData(catalog[k]) /\ SomeMonthFits(catalog[k]))
                  => Listed(catalog[k].name)

C8_Witness ==
    /\ ResultsPage
    /\ form.skills # <<>>
    /\ response.user_skills = <<>>
    /\ response.user_langs = <<>>
    /\ \E i \in DOMAIN response.results :
          /\ "general" \in DOMAIN sectors(CountryNamed(response.results[i].name))
          /\ response.results[i].breakdown.skills = 0
          /\ response.results[i].score > 0

\* C9: submitting the same form again over the same catalog renders the
\* same entries, scores, breakdowns and order, with the same weights.
C9_Idempotent ==
    [][(ResultsPage /\ response'.kind = "results" /\ form' = form
            /\ catalog' = catalog)
          => (response' = response /\ weights' = weights)]_vars

C9_Witness ==
    /\ ResultsPage
    /\ submits = 2
    /\ Len(response.results) >= 2

\* C10: a weight map with a negative weight is rejected before any country
\* is scored: no ranked result is produced from it.
C10_NegativeWeightRejected ==
    (\E k \in WeightKeys : RawWeight(k) < 0) => response.results = <<>>

\* C11: a country whose sector_scores, languages or monthly_avg_temps is
\* absent is handled as if the field were empty: the accessors give an
\* empty mapping or sequence, the request does not fail, and compute_match
\* on the request's inputs returns for such a country.
C11_AbsentFieldsAsEmpty ==
    response.kind \in {"results", "error"} =>
        /\ ResultsPage
        /\ \A k \in DOMAIN catalog :
              LET c == catalog[k]
                  call == call_compute_match(<<response.user_skills,
                                               response.user_langs, c, weights>>)
              IN  /\ ~ c.languages.present =>
                        ~ langs_raises(c) /\ langs(c) = <<>>
                  /\ ~ c.sector_scores.present =>
                        ~ sectors_raises(c) /\ DOMAIN sectors(c) = {}
                  /\ ~ c.monthly_avg_temps.present =>
                        ~ temps_raises(c) /\ temps(c) = <<>>
                  /\ (~ c.languages.present \/ ~ c.sector_scores.present
                        \/ ~ c.monthly_avg_temps.present) =>
                        /\ call.raised = ""
                        /\ ~ c.sector_scores.present => call.breakdown.skills = 0
                        /\ ~ c.languages.present => call.breakdown.lang = 0
        /\ \A i \in DOMAIN response.results :
              ~ CountryNamed(response.results[i].name).sector_scores.present
                  => response.results[i].breakdown.skills = 0

C11_Witness ==
    /\ ResultsPage
    /\ response.user_skills # <<>>
    /\ \E i \in DOMAIN response.results :
          ~ CountryNamed(response.results[i].name).sector_scores.present
    /\ \E k \in DOMAIN catalog :
          /\ ~ catalog[k].languages.present
          /\ ~ catalog[k].monthly_avg_temps.present

\* C12: a proficiency outside 0..3 is rejected or clamped before use: no
\* proficiency above 3 or below 0 reaches the language computation.
C12_ProficiencyInRange ==
    ResultsPage =>
        \A r \in DOMAIN response.results, i \in DOMAIN response.user_langs :
            LET stored == IF CountryNamed(response.results[r].name).languages.present
                          THEN CountryNamed(response.results[r].name).languages.val
                          ELSE <<>>
            IN  (\E j \in DOMAIN stored :
                    response.user_langs[i][1] = lower(stored[j].name))
                => (response.user_langs[i][2] >= 0
                      /\ response.user_langs[i][2] <= 3)

\* two names that differ at most in letter case
SameButCase(a, b) ==
    a = b \/ {a, b} \in {{"English", "english"}, {"German", "german"}}

\* the weight of a stored language entry, in tenths
EntryWeight(e) == IF e.kind = "dict" /\ e.has_weight THEN e.weight ELSE 10

StoredLanguages(c) == IF c.languages.present THEN c.languages.val ELSE <<>>

\* C13: a submitted language and a stored language entry whose names differ
\* only in letter case match: the entry contributes proficiency * weight to
\* the lang value of the country, stored as a bare name or as a record.
C13_CaseInsensitiveMatch ==
    ResultsPage =>
        \A i \in DOMAIN response.results :
            LET r == response.results[i]
                stored == StoredLanguages(CountryNamed(r.name))
            IN  \A e \in DOMAIN form.languages, j \in DOMAIN stored :
                    (/\ form.languages[e].lang # ""
                     /\ form.languages[e].prof # ""
                     /\ SameButCase(form.languages[e].lang, stored[j].name))
                    => 3 * r.breakdown.lang + 1 >=
                          100 * int(form.languages[e].prof)
                              * EntryWeight(stored[j])

\* a listed country of the given storage kind has an entry that matches a
\* submitted language only after case folding
MatchedAcrossCase(kind) ==
    \E i \in DOMAIN response.results :
        LET r == response.results[i]
            stored == StoredLanguages(CountryNamed(r.name))
        IN  /\ r.breakdown.lang > 0
            /\ \E e \in DOMAIN form.languages, j \in DOMAIN stored :
                  /\ stored[j].kind = kind
                  /\ form.languages[e].prof # ""
                  /\ form.languages[e].lang # stored[j].name
                  /\ SameButCase(form.languages[e].lang, stored[j].name)

C13_Witness ==
    /\ ResultsPage
    /\ MatchedAcrossCase("str")
    /\ MatchedAcrossCase("dict")

\* C14: for non-negative weights of raw sum S every final score is at most
\* 100 * min(1, S).
C14_ScoreBoundedByWeights ==
    (ResultsPage /\ \A k \in WeightKeys : RawWeight(k) >= 0) =>
        \A i \in DOMAIN response.results :
            response.results[i].score <= 1000 * min(10, RawTotal)

====
